---- MODULE Spec2Model ----
(***************************************************************************)
(* The index managers of the RocksDB datastore (rdb/managers.rs): six      *)
(* column families of byte keys, the write batch the managers stage puts   *)
(* and deletes on, and the commit of a batch.  Keys are modelled as the    *)
(* byte strings the key codec builds, reads are point lookups and ordered  *)
(* forward scans over those byte strings.                                  *)
(***************************************************************************)
EXTENDS Integers, Sequences, FiniteSets, TLC

(***************************************************************************)
(* Bounds of the model.                                                    *)
(***************************************************************************)
\* manager calls staged in one behaviour
MaxCalls == 3
\* instants are 0, TimeStep, ..., MaxTime * TimeStep
MaxTime == 1
TimeStep == 255
\* JSON property values are the numbers 0..MaxJson
MaxJson == 1
\* write batches a caller may hold at once
NumBatches == 2

(***************************************************************************)
(* Program constants.                                                      *)
(***************************************************************************)
\* a Uuid key component is 16 bytes
UuidLen == 16
\* a DateTime key component is a big-endian u64
DateTimeLen == 8
\* the sentinel instant; time-to-end of an instant d is MAX_DATETIME - d
MAX_DATETIME == 2147483647

(***************************************************************************)
(* The inputs the operations draw from.                                    *)
(***************************************************************************)
UuidA == [i \in 1..UuidLen |-> 17]
UuidB == [i \in 1..UuidLen |-> 34]
Uuids == {UuidA, UuidB}

\* the types "a" and "ab": one is a leading part of the other
TypeA == <<97>>
TypeAB == <<97, 98>>
Types == {TypeA, TypeAB}

\* the property names "n" and "na"
NameN == <<110>>
NameNA == <<110, 97>>
Names == {NameN, NameNA}

Times == {k * TimeStep : k \in 0..MaxTime}
JsonValues == 0..MaxJson

\* the edges the callers work on: two types between the same endpoints,
\* and a loop that does not touch UuidA
EdgeIds ==
    { <<UuidA, TypeA, UuidB>>, <<UuidA, TypeAB, UuidB>>, <<UuidB, TypeA, UuidB>> }

Batches == 1..NumBatches

(***************************************************************************)
(* Key codec (super::bytes): components are concatenated, no separator.    *)
(***************************************************************************)
RECURSIVE ToBigEndian(_, _)
ToBigEndian(n, w) ==
    IF w = 0 THEN <<>> ELSE ToBigEndian(n \div 256, w - 1) \o <<n % 256>>

RECURSIVE FromBigEndian(_)
FromBigEndian(s) ==
    IF s = <<>> THEN 0
    ELSE FromBigEndian(SubSeq(s, 1, Len(s) - 1)) * 256 + s[Len(s)]

Component_Uuid(id) == id
\* mutant: a type without its length byte
Component_Type_Raw(t) == t
Component_Type(t) == <<Len(t)>> \o t
Component_DateTime(d) == ToBigEndian(MAX_DATETIME - d, DateTimeLen)
Component_UnsizedString(s) == s

RECURSIVE build(_)
build(components) ==
    IF components = <<>> THEN <<>>
    ELSE Head(components) \o build(Tail(components))

\* the readers take a buffer and a cursor position and give the value read
\* and the position after it
read_uuid(buf, pos) ==
    [val |-> SubSeq(buf, pos, pos + UuidLen - 1), pos |-> pos + UuidLen]
read_type(buf, pos) ==
    [val |-> SubSeq(buf, pos + 1, pos + buf[pos]), pos |-> pos + 1 + buf[pos]]
read_datetime(buf, pos) ==
    [val |-> MAX_DATETIME - FromBigEndian(SubSeq(buf, pos, pos + DateTimeLen - 1)),
     pos |-> pos + DateTimeLen]
read_unsized_string(buf, pos) ==
    [val |-> SubSeq(buf, pos, Len(buf)), pos |-> Len(buf) + 1]

serde_json_to_vec(value) == <<48 + value>>
serde_json_from_slice(bytes) == bytes[1] - 48

(***************************************************************************)
(* The key-value engine: column families of (key, value) rows, point       *)
(* lookup, forward iteration in bytewise key order, atomic write batch.    *)
(***************************************************************************)
CF_VERTICES == "vertices:v1"
CF_EDGES == "edges:v1"
CF_EDGE_RANGES == "edge_ranges:v1"
CF_REVERSED_EDGE_RANGES == "reversed_edge_ranges:v1"
CF_VERTEX_PROPERTIES == "vertex_properties:v1"
CF_EDGE_PROPERTIES == "edge_properties:v1"
ColumnFamilies ==
    { CF_VERTICES, CF_EDGES, CF_EDGE_RANGES, CF_REVERSED_EDGE_RANGES,
      CF_VERTEX_PROPERTIES, CF_EDGE_PROPERTIES }

EmptyDB == [cf \in ColumnFamilies |-> {}]

None == <<>>
Some(x) == <<x>>

starts_with(k, prefix) ==
    /\ Len(prefix) <= Len(k)
    /\ SubSeq(k, 1, Len(prefix)) = prefix

\* bytewise order of keys (the engine's comparator): the first byte that
\* differs decides, and a proper prefix comes first
RECURSIVE BytesLessFrom(_, _, _)
BytesLessFrom(a, b, i) ==
    IF i > Len(b) THEN FALSE
    ELSE IF i > Len(a) THEN TRUE
    ELSE IF a[i] # b[i] THEN a[i] < b[i]
    ELSE BytesLessFrom(a, b, i + 1)

BytesLess(a, b) == BytesLessFrom(a, b, 1)

\* the row with the least key
MinRow(rows) == CHOOSE r \in rows : \A x \in rows : ~BytesLess(x[1], r[1])

\* the rows of a family in key order
RECURSIVE SortRows(_)
SortRowsFrom(m, rows) == <<m>> \o SortRows(rows \ {m})
SortRows(rows) == IF rows = {} THEN <<>> ELSE SortRowsFrom(MinRow(rows), rows)

get_cf(db, cf, key) ==
    IF \E r \in db[cf] : r[1] = key
    THEN Some((CHOOSE r \in db[cf] : r[1] = key)[2])
    ELSE None

\* IteratorMode::From(key, Direction::Forward)
iterator_cf(db, cf, from) ==
    SortRows({r \in db[cf] : ~BytesLess(r[1], from)})

put_cf(cf, key, value) == [op |-> "put", cf |-> cf, key |-> key, value |-> value]
delete_cf(cf, key) == [op |-> "delete", cf |-> cf, key |-> key, value |-> <<>>]

apply(db, w) ==
    [db EXCEPT ![w.cf] =
        IF w.op = "put"
        THEN {r \in @ : r[1] # w.key} \cup {<<w.key, w.value>>}
        ELSE {r \in @ : r[1] # w.key}]

\* DB::write(batch): the staged operations take effect in staging order
RECURSIVE write(_, _)
write(db, ops) ==
    IF ops = <<>> THEN db ELSE write(apply(db, Head(ops)), Tail(ops))

take_while_prefixed(iterator, prefix) ==
    LET n == CHOOSE n \in 0..Len(iterator) :
                /\ \A j \in 1..n : starts_with(iterator[j][1], prefix)
                /\ (n = Len(iterator) \/ ~starts_with(iterator[n + 1][1], prefix))
    IN  SubSeq(iterator, 1, n)

(***************************************************************************)
(* EdgeRangeManager: one instance per range family (self.cf).              *)
(***************************************************************************)
EdgeRangeManager_key(first_id, t, update_datetime, second_id) ==
    build(<<Component_Uuid(first_id), Component_Type(t),
            Component_DateTime(update_datetime), Component_Uuid(second_id)>>)

\* the decoding closure of EdgeRangeManager::iterate
EdgeRangeManager_item(k) ==
    LET first_id == read_uuid(k, 1)
        t == read_type(k, first_id.pos)
        update_datetime == read_datetime(k, t.pos)
        second_id == read_uuid(k, update_datetime.pos)
    IN  <<first_id.val, t.val, update_datetime.val, second_id.val>>

EdgeRangeManager_iterate(iterator, prefix) ==
    LET filtered == take_while_prefixed(iterator, prefix)
    IN  [j \in 1..Len(filtered) |-> EdgeRangeManager_item(filtered[j][1])]

\* mutant: the typed scan seeks to the start of the (id, type) rows
EdgeRangeManager_iterate_for_range_NoHigh(db, cf, id, t, high) ==
    IF t # None
    THEN LET prefix == build(<<Component_Uuid(id), Component_Type(t[1])>>)
         IN  EdgeRangeManager_iterate(iterator_cf(db, cf, prefix), prefix)
    ELSE LET prefix == build(<<Component_Uuid(id)>>)
             mapped == EdgeRangeManager_iterate(iterator_cf(db, cf, prefix), prefix)
         IN  IF high # None
             THEN SelectSeq(mapped, LAMBDA item : item[3] <= high[1])
             ELSE mapped

\* mutant: the typed scan keeps rows while they carry the id alone
EdgeRangeManager_iterate_for_range_IdPrefix(db, cf, id, t, high) ==
    IF t # None
    THEN LET h == IF high = None THEN MAX_DATETIME ELSE high[1]
             prefix == build(<<Component_Uuid(id)>>)
             low_key == build(<<Component_Uuid(id), Component_Type(t[1]),
                                Component_DateTime(h)>>)
         IN  EdgeRangeManager_iterate(iterator_cf(db, cf, low_key), prefix)
    ELSE LET prefix == build(<<Component_Uuid(id)>>)
             mapped == EdgeRangeManager_iterate(iterator_cf(db, cf, prefix), prefix)
         IN  IF high # None
             THEN SelectSeq(mapped, LAMBDA item : item[3] <= high[1])
             ELSE mapped

\* mutant: the untyped scan filters with < in place of <=
EdgeRangeManager_iterate_for_range_Strict(db, cf, id, t, high) ==
    IF t # None
    THEN LET h == IF high = None THEN MAX_DATETIME ELSE high[1]
             prefix == build(<<Component_Uuid(id), Component_Type(t[1])>>)
             low_key == build(<<Component_Uuid(id), Component_Type(t[1]),
                                Component_DateTime(h)>>)
         IN  EdgeRangeManager_iterate(iterator_cf(db, cf, low_key), prefix)
    ELSE LET prefix == build(<<Component_Uuid(id)>>)
             mapped == EdgeRangeManager_iterate(iterator_cf(db, cf, prefix), prefix)
         IN  IF high # None
             THEN SelectSeq(mapped, LAMBDA item : item[3] < high[1])
             ELSE mapped

\* t and high are options: None or Some(x)
EdgeRangeManager_iterate_for_range(db, cf, id, t, high) ==
    IF t # None
    THEN LET h == IF high = None THEN MAX_DATETIME ELSE high[1]
             prefix == build(<<Component_Uuid(id), Component_Type(t[1])>>)
             low_key == build(<<Component_Uuid(id), Component_Type(t[1]),
                                Component_DateTime(h)>>)
         IN  EdgeRangeManager_iterate(iterator_cf(db, cf, low_key), prefix)
    ELSE LET prefix == build(<<Component_Uuid(id)>>)
             mapped == EdgeRangeManager_iterate(iterator_cf(db, cf, prefix), prefix)
         IN  IF high # None
             THEN SelectSeq(mapped, LAMBDA item : item[3] <= high[1])
             ELSE mapped

\* mutant: the owner scan runs over the whole family
EdgeRangeManager_iterate_for_owner_All(db, cf, id) ==
    EdgeRangeManager_iterate(iterator_cf(db, cf, <<>>), <<>>)

EdgeRangeManager_iterate_for_owner(db, cf, id) ==
    LET prefix == build(<<Component_Uuid(id)>>)
    IN  EdgeRangeManager_iterate(iterator_cf(db, cf, prefix), prefix)

EdgeRangeManager_set(cf, first_id, t, update_datetime, second_id) ==
    <<put_cf(cf, EdgeRangeManager_key(first_id, t, update_datetime, second_id), <<>>)>>

EdgeRangeManager_delete(cf, first_id, t, update_datetime, second_id) ==
    <<delete_cf(cf, EdgeRangeManager_key(first_id, t, update_datetime, second_id))>>

(***************************************************************************)
(* VertexPropertyManager and EdgePropertyManager.                          *)
(***************************************************************************)
VertexPropertyManager_key(vertex_id, name) ==
    build(<<Component_Uuid(vertex_id), Component_UnsizedString(name)>>)

VertexPropertyManager_item(row) ==
    LET owner_id == read_uuid(row[1], 1)
        name == read_unsized_string(row[1], owner_id.pos)
    IN  <<<<owner_id.val, name.val>>, serde_json_from_slice(row[2])>>

\* mutant: the owner scan runs from the owner's first row to the end of the
\* family
VertexPropertyManager_iterate_for_owner_ToEnd(db, vertex_id) ==
    LET prefix == build(<<Component_Uuid(vertex_id)>>)
        filtered == iterator_cf(db, CF_VERTEX_PROPERTIES, prefix)
    IN  [j \in 1..Len(filtered) |-> VertexPropertyManager_item(filtered[j])]

VertexPropertyManager_iterate_for_owner(db, vertex_id) ==
    LET prefix == build(<<Component_Uuid(vertex_id)>>)
        filtered == take_while_prefixed(
                        iterator_cf(db, CF_VERTEX_PROPERTIES, prefix), prefix)
    IN  [j \in 1..Len(filtered) |-> VertexPropertyManager_item(filtered[j])]

VertexPropertyManager_get(db, vertex_id, name) ==
    LET value_bytes == get_cf(db, CF_VERTEX_PROPERTIES,
                              VertexPropertyManager_key(vertex_id, name))
    IN  IF value_bytes = None THEN None
        ELSE Some(serde_json_from_slice(value_bytes[1]))

VertexPropertyManager_set(vertex_id, name, value) ==
    <<put_cf(CF_VERTEX_PROPERTIES, VertexPropertyManager_key(vertex_id, name),
             serde_json_to_vec(value))>>

VertexPropertyManager_delete(vertex_id, name) ==
    <<delete_cf(CF_VERTEX_PROPERTIES, VertexPropertyManager_key(vertex_id, name))>>

\* mutant: the key leaves the edge's type out
EdgePropertyManager_key_NoType(outbound_id, t, inbound_id, name) ==
    build(<<Component_Uuid(outbound_id), Component_Uuid(inbound_id),
            Component_UnsizedString(name)>>)

EdgePropertyManager_key(outbound_id, t, inbound_id, name) ==
    build(<<Component_Uuid(outbound_id), Component_Type(t),
            Component_Uuid(inbound_id), Component_UnsizedString(name)>>)

EdgePropertyManager_item(row) ==
    LET edge_property_outbound_id == read_uuid(row[1], 1)
        edge_property_t == read_type(row[1], edge_property_outbound_id.pos)
        edge_property_inbound_id == read_uuid(row[1], edge_property_t.pos)
        edge_property_name == read_unsized_string(row[1], edge_property_inbound_id.pos)
    IN  << <<edge_property_outbound_id.val, edge_property_t.val,
             edge_property_inbound_id.val, edge_property_name.val>>,
           serde_json_from_slice(row[2]) >>

EdgePropertyManager_iterate_for_owner(db, outbound_id, t, inbound_id) ==
    LET prefix == build(<<Component_Uuid(outbound_id), Component_Type(t),
                          Component_Uuid(inbound_id)>>)
        filtered == take_while_prefixed(
                        iterator_cf(db, CF_EDGE_PROPERTIES, prefix), prefix)
    IN  [j \in 1..Len(filtered) |-> EdgePropertyManager_item(filtered[j])]

EdgePropertyManager_get(db, outbound_id, t, inbound_id, name) ==
    LET value_bytes == get_cf(db, CF_EDGE_PROPERTIES,
                              EdgePropertyManager_key(outbound_id, t, inbound_id, name))
    IN  IF value_bytes = None THEN None
        ELSE Some(serde_json_from_slice(value_bytes[1]))

EdgePropertyManager_set(outbound_id, t, inbound_id, name, value) ==
    <<put_cf(CF_EDGE_PROPERTIES,
             EdgePropertyManager_key(outbound_id, t, inbound_id, name),
             serde_json_to_vec(value))>>

EdgePropertyManager_delete(outbound_id, t, inbound_id, name) ==
    <<delete_cf(CF_EDGE_PROPERTIES,
                EdgePropertyManager_key(outbound_id, t, inbound_id, name))>>

(***************************************************************************)
(* EdgeManager.  A staging method is the sequence of batch operations it   *)
(* appends, computed from the committed store db it reads.                 *)
(***************************************************************************)
EdgeManager_key(outbound_id, t, inbound_id) ==
    build(<<Component_Uuid(outbound_id), Component_Type(t), Component_Uuid(inbound_id)>>)

EdgeManager_get(db, outbound_id, t, inbound_id) ==
    LET value_bytes == get_cf(db, CF_EDGES, EdgeManager_key(outbound_id, t, inbound_id))
    IN  IF value_bytes = None THEN None
        ELSE Some(read_datetime(value_bytes[1], 1).val)

\* mutant: set without the look-back, the stale range rows are left behind
EdgeManager_set_NoLookBack(db, outbound_id, t, inbound_id, new_update_datetime) ==
    <<put_cf(CF_EDGES, EdgeManager_key(outbound_id, t, inbound_id),
             build(<<Component_DateTime(new_update_datetime)>>))>>
    \o EdgeRangeManager_set(CF_EDGE_RANGES,
                            outbound_id, t, new_update_datetime, inbound_id)
    \o EdgeRangeManager_set(CF_REVERSED_EDGE_RANGES,
                            inbound_id, t, new_update_datetime, outbound_id)

\* mutant: set that writes the edge row and no range row
EdgeManager_set_NoRanges(db, outbound_id, t, inbound_id, new_update_datetime) ==
    LET old == EdgeManager_get(db, outbound_id, t, inbound_id)
    IN  (IF old # None
         THEN EdgeRangeManager_delete(CF_EDGE_RANGES, outbound_id, t, old[1], inbound_id)
              \o EdgeRangeManager_delete(CF_REVERSED_EDGE_RANGES,
                                         inbound_id, t, old[1], outbound_id)
         ELSE <<>>)
        \o <<put_cf(CF_EDGES, EdgeManager_key(outbound_id, t, inbound_id),
                    build(<<Component_DateTime(new_update_datetime)>>))>>

\* mutant: set that forgets the stale row of the forward family
EdgeManager_set_ReversedOnly(db, outbound_id, t, inbound_id, new_update_datetime) ==
    LET old == EdgeManager_get(db, outbound_id, t, inbound_id)
    IN  (IF old # None
         THEN EdgeRangeManager_delete(CF_REVERSED_EDGE_RANGES,
                                      inbound_id, t, old[1], outbound_id)
         ELSE <<>>)
        \o <<put_cf(CF_EDGES, EdgeManager_key(outbound_id, t, inbound_id),
                    build(<<Component_DateTime(new_update_datetime)>>))>>
        \o EdgeRangeManager_set(CF_EDGE_RANGES,
                                outbound_id, t, new_update_datetime, inbound_id)
        \o EdgeRangeManager_set(CF_REVERSED_EDGE_RANGES,
                                inbound_id, t, new_update_datetime, outbound_id)

\* mutant: set that forgets the stale row of the reversed family
EdgeManager_set_ForwardOnly(db, outbound_id, t, inbound_id, new_update_datetime) ==
    LET old == EdgeManager_get(db, outbound_id, t, inbound_id)
    IN  (IF old # None
         THEN EdgeRangeManager_delete(CF_EDGE_RANGES, outbound_id, t, old[1], inbound_id)
         ELSE <<>>)
        \o <<put_cf(CF_EDGES, EdgeManager_key(outbound_id, t, inbound_id),
                    build(<<Component_DateTime(new_update_datetime)>>))>>
        \o EdgeRangeManager_set(CF_EDGE_RANGES,
                                outbound_id, t, new_update_datetime, inbound_id)
        \o EdgeRangeManager_set(CF_REVERSED_EDGE_RANGES,
                                inbound_id, t, new_update_datetime, outbound_id)

EdgeManager_set(db, outbound_id, t, inbound_id, new_update_datetime) ==
    LET old == EdgeManager_get(db, outbound_id, t, inbound_id)
    IN  (IF old # None
         THEN EdgeRangeManager_delete(CF_EDGE_RANGES, outbound_id, t, old[1], inbound_id)
              \o EdgeRangeManager_delete(CF_REVERSED_EDGE_RANGES,
                                         inbound_id, t, old[1], outbound_id)
         ELSE <<>>)
        \o <<put_cf(CF_EDGES, EdgeManager_key(outbound_id, t, inbound_id),
                    build(<<Component_DateTime(new_update_datetime)>>))>>
        \o EdgeRangeManager_set(CF_EDGE_RANGES,
                                outbound_id, t, new_update_datetime, inbound_id)
        \o EdgeRangeManager_set(CF_REVERSED_EDGE_RANGES,
                                inbound_id, t, new_update_datetime, outbound_id)

\* the loop over the edge's property rows in EdgeManager::delete
RECURSIVE EdgeManager_delete_properties(_)
EdgeManager_delete_properties(items) ==
    IF items = <<>> THEN <<>>
    ELSE LET k == Head(items)[1]
         IN  EdgePropertyManager_delete(k[1], k[2], k[3], k[4])
             \o EdgeManager_delete_properties(Tail(items))

\* mutant: delete that leaves the row of the reversed family
EdgeManager_delete_ForwardOnly(db, outbound_id, t, inbound_id, update_datetime) ==
    <<delete_cf(CF_EDGES, EdgeManager_key(outbound_id, t, inbound_id))>>
    \o EdgeRangeManager_delete(CF_EDGE_RANGES, outbound_id, t, update_datetime, inbound_id)
    \o EdgeManager_delete_properties(
           EdgePropertyManager_iterate_for_owner(db, outbound_id, t, inbound_id))

\* mutant: delete without the cascade into the edge's property rows
EdgeManager_delete_NoProperties(db, outbound_id, t, inbound_id, update_datetime) ==
    <<delete_cf(CF_EDGES, EdgeManager_key(outbound_id, t, inbound_id))>>
    \o EdgeRangeManager_delete(CF_EDGE_RANGES, outbound_id, t, update_datetime, inbound_id)
    \o EdgeRangeManager_delete(CF_REVERSED_EDGE_RANGES,
                               inbound_id, t, update_datetime, outbound_id)

\* mutant: delete that looks the stored update_datetime up and removes the
\* range rows at it, whatever update_datetime it was handed
EdgeManager_delete_LooksUp(db, outbound_id, t, inbound_id, update_datetime) ==
    LET old == EdgeManager_get(db, outbound_id, t, inbound_id)
        dt == IF old # None THEN old[1] ELSE update_datetime
    IN  <<delete_cf(CF_EDGES, EdgeManager_key(outbound_id, t, inbound_id))>>
        \o EdgeRangeManager_delete(CF_EDGE_RANGES, outbound_id, t, dt, inbound_id)
        \o EdgeRangeManager_delete(CF_REVERSED_EDGE_RANGES, inbound_id, t, dt, outbound_id)
        \o EdgeManager_delete_properties(
               EdgePropertyManager_iterate_for_owner(db, outbound_id, t, inbound_id))

EdgeManager_delete(db, outbound_id, t, inbound_id, update_datetime) ==
    <<delete_cf(CF_EDGES, EdgeManager_key(outbound_id, t, inbound_id))>>
    \o EdgeRangeManager_delete(CF_EDGE_RANGES, outbound_id, t, update_datetime, inbound_id)
    \o EdgeRangeManager_delete(CF_REVERSED_EDGE_RANGES,
                               inbound_id, t, update_datetime, outbound_id)
    \o EdgeManager_delete_properties(
           EdgePropertyManager_iterate_for_owner(db, outbound_id, t, inbound_id))

\* a scan that fails does so when its iterator is made or at one of its
\* items: the loop body has run for none of the items or for some of them,
\* never for the last
FailPoints(items) == 0..(IF items = <<>> THEN 0 ELSE Len(items) - 1)

\* EdgeManager::set returning Err on a failed read: the look-back is its only
\* read and comes before every batch operation. The set of the operations
\* the call may have staged by then.
EdgeManager_set_err(db, outbound_id, t, inbound_id, new_update_datetime) == {<<>>}

\* mutant: delete that scans the property rows before it stages anything
EdgeManager_delete_err_ScansFirst(db, outbound_id, t, inbound_id, update_datetime) == {<<>>}

\* EdgeManager::delete returning Err on a failed read: the property scan
\* comes after the three row deletes
EdgeManager_delete_err(db, outbound_id, t, inbound_id, update_datetime) ==
    LET items == EdgePropertyManager_iterate_for_owner(db, outbound_id, t, inbound_id)
    IN  { <<delete_cf(CF_EDGES, EdgeManager_key(outbound_id, t, inbound_id))>>
          \o EdgeRangeManager_delete(CF_EDGE_RANGES,
                                     outbound_id, t, update_datetime, inbound_id)
          \o EdgeRangeManager_delete(CF_REVERSED_EDGE_RANGES,
                                     inbound_id, t, update_datetime, outbound_id)
          \o EdgeManager_delete_properties(SubSeq(items, 1, j)) :
            j \in FailPoints(items) }

(***************************************************************************)
(* VertexManager.                                                          *)
(***************************************************************************)
VertexManager_key(id) == build(<<Component_Uuid(id)>>)

VertexManager_exists(db, id) == get_cf(db, CF_VERTICES, VertexManager_key(id)) # None

VertexManager_get(db, id) ==
    LET value_bytes == get_cf(db, CF_VERTICES, VertexManager_key(id))
    IN  IF value_bytes = None THEN None ELSE Some(read_type(value_bytes[1], 1).val)

\* mutant: create that puts the type into the key as well
VertexManager_create_TypeInKey(id, t) ==
    <<put_cf(CF_VERTICES, build(<<Component_Uuid(id), Component_Type(t)>>),
             build(<<Component_Type(t)>>))>>

VertexManager_create(id, t) ==
    <<put_cf(CF_VERTICES, VertexManager_key(id), build(<<Component_Type(t)>>))>>

\* the three loops of VertexManager::delete
RECURSIVE VertexManager_delete_properties(_)
VertexManager_delete_properties(items) ==
    IF items = <<>> THEN <<>>
    ELSE LET k == Head(items)[1]
         IN  VertexPropertyManager_delete(k[1], k[2])
             \o VertexManager_delete_properties(Tail(items))

RECURSIVE VertexManager_delete_outbound(_, _)
VertexManager_delete_outbound(db, items) ==
    IF items = <<>> THEN <<>>
    ELSE LET item == Head(items)
         IN  EdgeManager_delete(db, item[1], item[2], item[4], item[3])
             \o VertexManager_delete_outbound(db, Tail(items))

RECURSIVE VertexManager_delete_inbound(_, _)
VertexManager_delete_inbound(db, items) ==
    IF items = <<>> THEN <<>>
    ELSE LET item == Head(items)
         IN  EdgeManager_delete(db, item[4], item[2], item[1], item[3])
             \o VertexManager_delete_inbound(db, Tail(items))

\* mutant: delete that leaves the vertex's property rows
VertexManager_delete_NoProperties(db, id) ==
    <<delete_cf(CF_VERTICES, VertexManager_key(id))>>
    \o VertexManager_delete_outbound(
           db, EdgeRangeManager_iterate_for_owner(db, CF_EDGE_RANGES, id))
    \o VertexManager_delete_inbound(
           db, EdgeRangeManager_iterate_for_owner(db, CF_REVERSED_EDGE_RANGES, id))

\* mutant: delete that does not walk the reversed range family
VertexManager_delete_NoInbound(db, id) ==
    <<delete_cf(CF_VERTICES, VertexManager_key(id))>>
    \o VertexManager_delete_properties(VertexPropertyManager_iterate_for_owner(db, id))
    \o VertexManager_delete_outbound(
           db, EdgeRangeManager_iterate_for_owner(db, CF_EDGE_RANGES, id))

VertexManager_delete(db, id) ==
    <<delete_cf(CF_VERTICES, VertexManager_key(id))>>
    \o VertexManager_delete_properties(VertexPropertyManager_iterate_for_owner(db, id))
    \o VertexManager_delete_outbound(
           db, EdgeRangeManager_iterate_for_owner(db, CF_EDGE_RANGES, id))
    \o VertexManager_delete_inbound(
           db, EdgeRangeManager_iterate_for_owner(db, CF_REVERSED_EDGE_RANGES, id))

\* VertexManager::delete returning Err on a failed read: in the property
\* scan, when the forward or the reversed range iterator is made, or inside
\* the EdgeManager::delete of one of the edges
VertexManager_delete_err(db, id) ==
    LET head == <<delete_cf(CF_VERTICES, VertexManager_key(id))>>
        props == VertexPropertyManager_iterate_for_owner(db, id)
        out == EdgeRangeManager_iterate_for_owner(db, CF_EDGE_RANGES, id)
        inb == EdgeRangeManager_iterate_for_owner(db, CF_REVERSED_EDGE_RANGES, id)
        P == head \o VertexManager_delete_properties(props)
        O == P \o VertexManager_delete_outbound(db, out)
    IN  { head \o VertexManager_delete_properties(SubSeq(props, 1, j)) :
            j \in FailPoints(props) }
        \cup {P}
        \cup UNION { { P \o VertexManager_delete_outbound(db, SubSeq(out, 1, j - 1)) \o ops :
                         ops \in EdgeManager_delete_err(db, out[j][1], out[j][2],
                                                        out[j][4], out[j][3]) } :
                     j \in 1..Len(out) }
        \cup {O}
        \cup UNION { { O \o VertexManager_delete_inbound(db, SubSeq(inb, 1, j - 1)) \o ops :
                         ops \in EdgeManager_delete_err(db, inb[j][4], inb[j][2],
                                                        inb[j][1], inb[j][3]) } :
                     j \in 1..Len(inb) }

(***************************************************************************)
(* The state: the committed store, the caller's write batches, and a       *)
(* record of the manager calls behind them.                                *)
(***************************************************************************)
VARIABLES
    store,    \* the committed contents of the column families
    batch,    \* per batch: the staged puts and deletes, in staging order
    calls,    \* per batch: the manager calls that staged them, in order
    last,     \* right after a commit: the calls committed and the store before
    ncalls,   \* manager calls staged so far
    edgesOk,  \* history: every call so far kept the callers' edge contract
    propsOk,  \* history: every call so far kept the callers' property contract
    probe     \* two key tuples of one schema and the keys built from them

vars == <<store, batch, calls, last, ncalls, edgesOk, propsOk, probe>>

\* a manager call: method, ids, type, instant, property name and value
\* (the parts a method does not take are left empty)
Call(m, a, t, b, d, n, v) ==
    [m |-> m, a |-> a, t |-> t, b |-> b, d |-> d, n |-> n, v |-> v]

\* no commit was the last step; after a commit `last` holds the calls and the
\* operations committed and the store before, and in `prev` the same of the
\* commit before when no call was staged between the two
NoLast == [valid |-> FALSE, calls |-> <<>>, ops |-> <<>>, pre |-> EmptyDB, prev |-> <<>>]

AllEdges == Uuids \X Types \X Uuids

\* the edges a call reads or writes index rows of
EdgesTouched(c) ==
    IF c.m \in {"EdgeManager.set", "EdgeManager.delete"} THEN {<<c.a, c.t, c.b>>}
    ELSE IF c.m = "VertexManager.delete"
         THEN {e \in AllEdges : e[1] = c.a \/ e[3] = c.a}
         ELSE {}

\* the callers' edge contract: one operation per edge and batch, and
\* EdgeManager.delete is handed the edge's stored update_datetime
EdgeContract(db, staged, c) ==
    /\ \A j \in 1..Len(staged) : EdgesTouched(staged[j]) \cap EdgesTouched(c) = {}
    /\ c.m = "EdgeManager.delete" =>
           EdgeManager_get(db, c.a, c.t, c.b) \in {None, Some(c.d)}

\* the owners whose property rows a call writes, and those it deletes
PropertyOwnersSet(c) ==
    IF c.m = "VertexPropertyManager.set" THEN {<<c.a>>}
    ELSE IF c.m = "EdgePropertyManager.set" THEN {<<c.a, c.t, c.b>>}
         ELSE {}

OwnersDeleted(c) ==
    IF c.m = "VertexManager.delete"
    THEN {<<c.a>>} \cup {e \in AllEdges : e[1] = c.a \/ e[3] = c.a}
    ELSE IF c.m = "EdgeManager.delete" THEN {<<c.a, c.t, c.b>>}
         ELSE {}

OwnerExists(db, o) ==
    IF Len(o) = 1 THEN VertexManager_exists(db, o[1])
    ELSE EdgeManager_get(db, o[1], o[2], o[3]) # None

\* the callers' property contract: a property is set only on an owner whose
\* row is committed, and never in a batch that also deletes that owner
PropertyContract(db, staged, c) ==
    /\ \A o \in PropertyOwnersSet(c) :
           /\ OwnerExists(db, o)
           /\ \A j \in 1..Len(staged) : o \notin OwnersDeleted(staged[j])
    /\ \A o \in OwnersDeleted(c) :
           \A j \in 1..Len(staged) : o \notin PropertyOwnersSet(staged[j])

\* a store with two vertices, two edges and a property on a vertex and on an
\* edge, as three committed batches leave it
Populated1 ==
    write(EmptyDB, VertexManager_create(UuidA, TypeA)
                   \o VertexManager_create(UuidB, TypeAB))
Populated2 ==
    write(Populated1, EdgeManager_set(Populated1, UuidA, TypeA, UuidB, 0)
                      \o EdgeManager_set(Populated1, UuidB, TypeA, UuidB, 0))
Populated ==
    write(Populated2, VertexPropertyManager_set(UuidA, NameN, 0)
                      \o EdgePropertyManager_set(UuidA, TypeA, UuidB, NameNA, 0))

\* the key schemas of the managers, and the tuples keys are built from
Schemas ==
    {"VertexManager", "EdgeManager", "EdgeRangeManager", "VertexPropertyManager",
     "EdgePropertyManager"}
\* the types of the callers and "b", which is shorter than "ab" and sorts after
TypeB == <<98>>
CodecTypes == Types \cup {TypeB}
KeyTuples == [a : Uuids, t : CodecTypes, d : Times, b : Uuids, n : Names]
NoProbe ==
    [done |-> FALSE, schema |-> "none",
     x |-> [a |-> UuidA, t |-> TypeA, d |-> 0, b |-> UuidA, n |-> NameN],
     y |-> [a |-> UuidA, t |-> TypeA, d |-> 0, b |-> UuidA, n |-> NameN],
     kx |-> <<>>, ky |-> <<>>]

Init ==
    /\ store \in {EmptyDB, Populated}
    /\ batch = [b \in Batches |-> <<>>]
    /\ calls = [b \in Batches |-> <<>>]
    /\ last = NoLast
    /\ ncalls = 0
    /\ edgesOk = TRUE
    /\ propsOk = TRUE
    /\ probe = NoProbe

\* what a call stages when its reads are answered from db
StagedBy(db, c) ==
    CASE c.m = "VertexManager.create" -> VertexManager_create(c.a, c.t)
      [] c.m = "VertexManager.delete" -> VertexManager_delete(db, c.a)
      [] c.m = "EdgeManager.set" -> EdgeManager_set(db, c.a, c.t, c.b, c.d)
      [] c.m = "EdgeManager.delete" -> EdgeManager_delete(db, c.a, c.t, c.b, c.d)
      [] c.m = "VertexPropertyManager.set" -> VertexPropertyManager_set(c.a, c.n, c.v)
      [] c.m = "VertexPropertyManager.delete" -> VertexPropertyManager_delete(c.a, c.n)
      [] c.m = "EdgePropertyManager.set" ->
             EdgePropertyManager_set(c.a, c.t, c.b, c.n, c.v)
      [] c.m = "EdgePropertyManager.delete" ->
             EdgePropertyManager_delete(c.a, c.t, c.b, c.n)
      [] OTHER -> <<>>   \* a call that returned Err is to leave nothing behind

\* the calls the callers make, by manager method
VertexCreateCalls ==
    {Call("VertexManager.create", id, t, <<>>, 0, <<>>, 0) : id \in Uuids, t \in Types}
VertexDeleteCalls ==
    {Call("VertexManager.delete", id, <<>>, <<>>, 0, <<>>, 0) : id \in Uuids}
EdgeSetCalls ==
    {Call("EdgeManager.set", x[1][1], x[1][2], x[1][3], x[2], <<>>, 0) :
        x \in EdgeIds \X Times}
EdgeDeleteCalls ==
    {Call("EdgeManager.delete", x[1][1], x[1][2], x[1][3], x[2], <<>>, 0) :
        x \in EdgeIds \X Times}
VertexPropertySetCalls ==
    {Call("VertexPropertyManager.set", x[1], <<>>, <<>>, 0, x[2], x[3]) :
        x \in Uuids \X Names \X JsonValues}
VertexPropertyDeleteCalls ==
    {Call("VertexPropertyManager.delete", x[1], <<>>, <<>>, 0, x[2], 0) :
        x \in Uuids \X Names}
EdgePropertySetCalls ==
    {Call("EdgePropertyManager.set", x[1][1], x[1][2], x[1][3], 0, x[2], x[3]) :
        x \in EdgeIds \X Names \X JsonValues}
EdgePropertyDeleteCalls ==
    {Call("EdgePropertyManager.delete", x[1][1], x[1][2], x[1][3], 0, x[2], 0) :
        x \in EdgeIds \X Names}

\* mutant: staging writes through to the store
Stage_WriteThrough(b, call) ==
    /\ ncalls < MaxCalls
    /\ batch' = [batch EXCEPT ![b] = @ \o StagedBy(store, call)]
    /\ calls' = [calls EXCEPT ![b] = Append(@, call)]
    /\ ncalls' = ncalls + 1
    /\ last' = NoLast
    /\ edgesOk' = (edgesOk /\ EdgeContract(store, calls[b], call))
    /\ propsOk' = (propsOk /\ PropertyContract(store, calls[b], call))
    /\ store' = write(store, StagedBy(store, call))
    /\ UNCHANGED probe

\* a manager call on batch b: it reads the committed store, appends what it
\* stages to the batch and leaves the store alone
Stage(b, call) ==
    /\ ncalls < MaxCalls
    /\ batch' = [batch EXCEPT ![b] = @ \o StagedBy(store, call)]
    /\ calls' = [calls EXCEPT ![b] = Append(@, call)]
    /\ ncalls' = ncalls + 1
    /\ last' = NoLast
    /\ edgesOk' = (edgesOk /\ EdgeContract(store, calls[b], call))
    /\ propsOk' = (propsOk /\ PropertyContract(store, calls[b], call))
    /\ UNCHANGED <<store, probe>>

VertexCreate(b) == \E call \in VertexCreateCalls : Stage(b, call)
VertexDelete(b) == \E call \in VertexDeleteCalls : Stage(b, call)
EdgeSet(b) == \E call \in EdgeSetCalls : Stage(b, call)
EdgeDelete(b) == \E call \in EdgeDeleteCalls : Stage(b, call)
VertexPropertySet(b) == \E call \in VertexPropertySetCalls : Stage(b, call)
VertexPropertyDelete(b) == \E call \in VertexPropertyDeleteCalls : Stage(b, call)
EdgePropertySet(b) == \E call \in EdgePropertySetCalls : Stage(b, call)
EdgePropertyDelete(b) == \E call \in EdgePropertyDeleteCalls : Stage(b, call)

\* what the calls of a batch stage when all their reads are answered from db
RECURSIVE Restaged(_, _)
Restaged(db, cs) ==
    IF cs = <<>> THEN <<>> ELSE StagedBy(db, Head(cs)) \o Restaged(db, Tail(cs))

\* the calls that return Err because a read of the store fails
Err(c) ==
    [c EXCEPT !.m = CASE c.m = "VertexManager.delete" -> "VertexManager.delete: Err"
                      [] c.m = "EdgeManager.set" -> "EdgeManager.set: Err"
                      [] c.m = "EdgeManager.delete" -> "EdgeManager.delete: Err"]
VertexDeleteErrCalls == {Err(c) : c \in VertexDeleteCalls}
EdgeSetErrCalls == {Err(c) : c \in EdgeSetCalls}
EdgeDeleteErrCalls == {Err(c) : c \in EdgeDeleteCalls}
ErrCalls == VertexDeleteErrCalls \cup EdgeSetErrCalls \cup EdgeDeleteErrCalls

\* the same call with every read answered
Answered(c) ==
    [c EXCEPT !.m = CASE c.m = "VertexManager.delete: Err" -> "VertexManager.delete"
                      [] c.m = "EdgeManager.set: Err" -> "EdgeManager.set"
                      [] c.m = "EdgeManager.delete: Err" -> "EdgeManager.delete"]

\* what a call may have staged when it returns Err, its reads answered from
\* db up to the one that fails
StagedByErr(db, c) ==
    CASE c.m = "VertexManager.delete: Err" -> VertexManager_delete_err(db, c.a)
      [] c.m = "EdgeManager.set: Err" -> EdgeManager_set_err(db, c.a, c.t, c.b, c.d)
      [] c.m = "EdgeManager.delete: Err" ->
             EdgeManager_delete_err(db, c.a, c.t, c.b, c.d)

\* a manager call on batch b that returns Err: what it staged before the
\* failed read stays on the batch
StageErr(b, call) ==
    /\ ncalls < MaxCalls
    /\ \E ops \in StagedByErr(store, call) :
           batch' = [batch EXCEPT ![b] = @ \o ops]
    /\ calls' = [calls EXCEPT ![b] = Append(@, call)]
    /\ ncalls' = ncalls + 1
    /\ last' = NoLast
    /\ UNCHANGED <<store, edgesOk, propsOk, probe>>

VertexDeleteErr(b) == \E call \in VertexDeleteErrCalls : StageErr(b, call)
EdgeSetErr(b) == \E call \in EdgeSetErrCalls : StageErr(b, call)
EdgeDeleteErr(b) == \E call \in EdgeDeleteErrCalls : StageErr(b, call)

\* the caller hands the batch to the engine, which applies it atomically; the
\* callers' edge contract asks that no commit since the batch's reads changed
\* what they returned
\* (committing an empty batch changes nothing and is left out)
Commit(b) ==
    /\ calls[b] # <<>>
    /\ store' = write(store, batch[b])
    /\ last' = [valid |-> TRUE, calls |-> calls[b], ops |-> batch[b], pre |-> store,
                 prev |-> IF last.valid
                          THEN <<[calls |-> last.calls, ops |-> last.ops,
                                  pre |-> last.pre]>>
                          ELSE <<>>]
    /\ batch' = [batch EXCEPT ![b] = <<>>]
    /\ calls' = [calls EXCEPT ![b] = <<>>]
    /\ edgesOk' = (edgesOk /\ batch[b] = Restaged(store, calls[b]))
    /\ UNCHANGED <<ncalls, propsOk, probe>>

Step(b) ==
    \/ VertexCreate(b)
    \/ VertexDelete(b)
    \/ EdgeSet(b)
    \/ EdgeDelete(b)
    \/ VertexPropertySet(b)
    \/ VertexPropertyDelete(b)
    \/ EdgePropertySet(b)
    \/ EdgePropertyDelete(b)
    \/ Commit(b)

\* one caller: a batch is staged and committed before the next one is begun
Next == Step(1)

Spec == Init /\ [][Next]_vars

\* one caller that works on edges only: the range families are written by
\* EdgeManager.set, EdgeManager.delete and VertexManager.delete and by nothing
\* else, so these steps build every content of the range families that Next
\* builds
EdgeNext == EdgeSet(1) \/ EdgeDelete(1) \/ VertexDelete(1) \/ Commit(1)

EdgeSpec == Init /\ [][EdgeNext]_vars

\* one caller that works on properties and on the deletes that cascade into
\* them
PropertyNext ==
    \/ VertexPropertySet(1) \/ VertexPropertyDelete(1)
    \/ EdgePropertySet(1) \/ EdgePropertyDelete(1)
    \/ VertexDelete(1) \/ EdgeDelete(1)
    \/ Commit(1)

PropertySpec == Init /\ [][PropertyNext]_vars

\* one caller some of whose calls return Err on a failed read, and who goes
\* on with the batch
ErrNext ==
    \/ VertexDeleteErr(1) \/ EdgeSetErr(1) \/ EdgeDeleteErr(1)
    \/ EdgeSet(1) \/ VertexPropertySet(1) \/ EdgePropertySet(1)
    \/ Commit(1)

ErrSpec == Init /\ [][ErrNext]_vars

\* callers that work on edges with several batches at once: a call is staged
\* on any batch and any batch is committed, in any order
ConcNext ==
    \E b \in Batches : EdgeSet(b) \/ EdgeDelete(b) \/ VertexDelete(b) \/ Commit(b)

ConcSpec == Init /\ [][ConcNext]_vars

\* the same callers using EdgeManager.set only, from an empty store
EmptyInit == Init /\ store = EmptyDB

\* the key a manager builds from a tuple of its schema
KeyOf(schema, T) ==
    CASE schema = "VertexManager" -> VertexManager_key(T.a)
      [] schema = "EdgeManager" -> EdgeManager_key(T.a, T.t, T.b)
      [] schema = "EdgeRangeManager" -> EdgeRangeManager_key(T.a, T.t, T.d, T.b)
      [] schema = "VertexPropertyManager" -> VertexPropertyManager_key(T.a, T.n)
      [] schema = "EdgePropertyManager" -> EdgePropertyManager_key(T.a, T.t, T.b, T.n)

\* two tuples of one schema are given
CodecInit ==
    /\ store = EmptyDB
    /\ batch = [b \in Batches |-> <<>>]
    /\ calls = [b \in Batches |-> <<>>]
    /\ last = NoLast
    /\ ncalls = 0
    /\ edgesOk = TRUE
    /\ propsOk = TRUE
    /\ probe \in {[done |-> FALSE, schema |-> s, x |-> p[1], y |-> p[2],
                    kx |-> <<>>, ky |-> <<>>] :
                       s \in Schemas, p \in KeyTuples \X KeyTuples}

\* the manager builds the keys of both tuples
BuildKeys ==
    /\ ~probe.done
    /\ probe.schema \in Schemas
    /\ probe' = [probe EXCEPT !.done = TRUE,
                               !.kx = KeyOf(probe.schema, probe.x),
                               !.ky = KeyOf(probe.schema, probe.y)]
    /\ UNCHANGED <<store, batch, calls, last, ncalls, edgesOk, propsOk>>

\* one caller writing edges and properties
OwnerNext ==
    \/ EdgeSet(1)
    \/ VertexPropertySet(1)
    \/ EdgePropertySet(1)
    \/ Commit(1)
OwnerSpec == Init /\ [][OwnerNext]_vars

CodecNext == BuildKeys
CodecSpec == CodecInit /\ [][CodecNext]_vars

SetNext == \E b \in Batches : EdgeSet(b) \/ Commit(b)

SetSpec == EmptyInit /\ [][SetNext]_vars

(***************************************************************************)
(* The logical contents of the store, row by row.                          *)
(***************************************************************************)
HasRow(db, cf, key) == \E r \in db[cf] : r[1] = key

HasEdge(db, e, d) ==
    <<EdgeManager_key(e[1], e[2], e[3]), build(<<Component_DateTime(d)>>)>> \in db[CF_EDGES]

\* the range rows of edge e in the forward and in the reversed family
HasForward(db, e, d) ==
    HasRow(db, CF_EDGE_RANGES, EdgeRangeManager_key(e[1], e[2], d, e[3]))
HasReversed(db, e, d) ==
    HasRow(db, CF_REVERSED_EDGE_RANGES, EdgeRangeManager_key(e[3], e[2], d, e[1]))

\* P1 for one edge: its range rows are exactly the two at its stored instant
EdgeMirrored(db, e) ==
    \A d \in Times :
        HasEdge(db, e, d) =>
            \A x \in Times : /\ HasForward(db, e, x) <=> (x = d)
                             /\ HasReversed(db, e, x) <=> (x = d)

P1(db) == \A e \in AllEdges : EdgeMirrored(db, e)

(***************************************************************************)
(* What a committed batch held.                                            *)
(***************************************************************************)
\* the batch staged EdgeManager.set(e, d) and nothing else that touches e
SetOnly(cs, e, d) ==
    \E j \in 1..Len(cs) :
        /\ cs[j] = Call("EdgeManager.set", e[1], e[2], e[3], d, <<>>, 0)
        /\ \A k \in 1..Len(cs) : k # j => e \notin EdgesTouched(cs[k])

\* the batch staged VertexManager.delete(v)
VertexDeleted(cs, v) ==
    \E j \in 1..Len(cs) : cs[j].m = "VertexManager.delete" /\ cs[j].a = v

\* the batch staged no create of v and no set of an edge that ends in v
NotRevived(cs, v) ==
    \A j \in 1..Len(cs) :
        /\ ~(cs[j].m = "VertexManager.create" /\ cs[j].a = v)
        /\ ~(cs[j].m = "EdgeManager.set" /\ (cs[j].a = v \/ cs[j].b = v))

\* the endpoints of an edge row, decoded from its key
EdgeRowOutbound(k) == read_uuid(k, 1).val
EdgeRowInbound(k) == read_uuid(k, read_type(k, read_uuid(k, 1).pos).pos).val

\* no vertex row, edge row or range row mentions v
VertexGone(db, v) ==
    /\ ~VertexManager_exists(db, v)
    /\ \A r \in db[CF_EDGES] : EdgeRowOutbound(r[1]) # v /\ EdgeRowInbound(r[1]) # v
    /\ \A cf \in {CF_EDGE_RANGES, CF_REVERSED_EDGE_RANGES} :
           \A r \in db[cf] :
               EdgeRangeManager_item(r[1])[1] # v /\ EdgeRangeManager_item(r[1])[4] # v

\* edge e has one edge row, at d, and exactly the two range rows at d
UpsertPost(db, e, d) ==
    /\ {r \in db[CF_EDGES] : r[1] = EdgeManager_key(e[1], e[2], e[3])}
           = {<<EdgeManager_key(e[1], e[2], e[3]), build(<<Component_DateTime(d)>>)>>}
    /\ \A x \in Times : /\ HasForward(db, e, x) <=> (x = d)
                        /\ HasReversed(db, e, x) <=> (x = d)

(***************************************************************************)
(* C1.                                                                     *)
(***************************************************************************)
\* C1 as stated: after every commit, whatever the batch staged, every edge
\* row has its two range rows at the stored instant and no other range row.
C1_AnyBatchKeepsP1 == last.valid => P1(store)

\* C1, amended: P1 holds in every committed store as long as the batches are
\* staged and committed one at a time, no batch stages two operations that
\* touch the same edge (EdgeManager.set, EdgeManager.delete, or
\* VertexManager.delete of an endpoint), and every EdgeManager.delete is
\* passed the stored update_datetime of the edge.
C1_ContractKeepsP1 == edgesOk => P1(store)

\* an edge was re-set to another instant under the contract
C1_Witness ==
    /\ edgesOk /\ last.valid
    /\ \E e \in AllEdges, d1, d2 \in Times :
           /\ d1 # d2
           /\ HasEdge(last.pre, e, d1)
           /\ HasEdge(store, e, d2)
           /\ HasForward(store, e, d2) /\ HasReversed(store, e, d2)

(***************************************************************************)
(* C2.                                                                     *)
(***************************************************************************)
\* C2 as stated: set(e, d1) committed, then set(e, d2) committed with no other
\* operation on e in between, leaves one edge row at d2 and exactly the range
\* rows at d2 in both families.
C2_SetTwice ==
    \A e \in AllEdges, d1, d2 \in Times :
        (last.valid /\ SetOnly(last.calls, e, d2) /\ HasEdge(last.pre, e, d1))
            => UpsertPost(store, e, d2)

\* C2, amended: the same, provided that the store the second set reads holds
\* no range row of e other than the two at d1.
C2_SetTwiceFromMirrored ==
    \A e \in AllEdges, d1, d2 \in Times :
        (/\ last.valid
         /\ SetOnly(last.calls, e, d2)
         /\ HasEdge(last.pre, e, d1)
         /\ EdgeMirrored(last.pre, e))
            => UpsertPost(store, e, d2)

\* a second set moved an edge from d1 to another instant d2
C2_Witness ==
    /\ last.valid
    /\ \E e \in AllEdges, d1, d2 \in Times :
           /\ d1 # d2
           /\ SetOnly(last.calls, e, d2)
           /\ HasEdge(last.pre, e, d1)
           /\ HasForward(last.pre, e, d1) /\ HasReversed(last.pre, e, d1)
           /\ EdgeMirrored(last.pre, e)
           /\ UpsertPost(store, e, d2)

(***************************************************************************)
(* C3.                                                                     *)
(***************************************************************************)
\* C3 as stated: after a batch containing VertexManager.delete(v) is
\* committed, v does not exist and no edge row or range row mentions v.
C3_VertexDeleteRemovesAll ==
    \A v \in Uuids :
        (last.valid /\ VertexDeleted(last.calls, v)) => VertexGone(store, v)

\* C3, amended: the same, for a batch that stages, besides
\* VertexManager.delete(v), no VertexManager.create(v) and no EdgeManager.set
\* of an edge with endpoint v (batches staged and committed one at a time).
C3_VertexDeleteAlone ==
    \A v \in Uuids :
        (last.valid /\ VertexDeleted(last.calls, v) /\ NotRevived(last.calls, v))
            => VertexGone(store, v)

\* a vertex with a vertex row and an edge coming in from another vertex was
\* deleted
C3_Witness ==
    /\ last.valid
    /\ \E v \in Uuids :
           /\ VertexDeleted(last.calls, v) /\ NotRevived(last.calls, v)
           /\ VertexManager_exists(last.pre, v)
           /\ \E r \in last.pre[CF_EDGES] :
                  EdgeRowInbound(r[1]) = v /\ EdgeRowOutbound(r[1]) # v
           /\ VertexGone(store, v)

(***************************************************************************)
(* C4.                                                                     *)
(***************************************************************************)
\* the owner of a property row, decoded from its key
VertexPropertyOwner(k) == read_uuid(k, 1).val
EdgePropertyOwner(k) ==
    LET o == read_uuid(k, 1)
        t == read_type(k, o.pos)
        i == read_uuid(k, t.pos)
    IN  <<o.val, t.val, i.val>>

\* no vertex-property row is owned by v, no edge-property row has v as its
\* first or third key component
NoPropertiesOf(db, v) ==
    /\ \A r \in db[CF_VERTEX_PROPERTIES] : VertexPropertyOwner(r[1]) # v
    /\ \A r \in db[CF_EDGE_PROPERTIES] :
           EdgePropertyOwner(r[1])[1] # v /\ EdgePropertyOwner(r[1])[3] # v

\* the batch staged no property set on v or on an edge with endpoint v
NoPropertySetOn(cs, v) ==
    \A j \in 1..Len(cs) :
        /\ ~(cs[j].m = "VertexPropertyManager.set" /\ cs[j].a = v)
        /\ ~(cs[j].m = "EdgePropertyManager.set" /\ (cs[j].a = v \/ cs[j].b = v))

\* every edge-property row at v belongs to an edge that has its edge row
EdgePropertiesOwnedAt(db, v) ==
    \A r \in db[CF_EDGE_PROPERTIES] :
        LET e == EdgePropertyOwner(r[1])
        IN  (e[1] = v \/ e[3] = v) => HasRow(db, CF_EDGES, EdgeManager_key(e[1], e[2], e[3]))

\* C4 as stated: after a batch containing VertexManager.delete(v) is
\* committed, no property row of v and no edge-property row of an edge at v
\* is left, whatever store the managers had built before.
C4_VertexDeleteLeavesNoProperty ==
    \A v \in Uuids :
        (last.valid /\ VertexDeleted(last.calls, v)) => NoPropertiesOf(store, v)

\* C4, amended: the same, for a batch that stages no property set on v or on
\* an edge with endpoint v, read against a committed store in which every
\* edge-property row with v as first or third component belongs to an edge
\* that has its edge row (batches staged and committed one at a time).
C4_VertexDeleteLeavesNoOwnedProperty ==
    \A v \in Uuids :
        (/\ last.valid
         /\ VertexDeleted(last.calls, v)
         /\ NoPropertySetOn(last.calls, v)
         /\ EdgePropertiesOwnedAt(last.pre, v))
            => NoPropertiesOf(store, v)

\* a vertex with a property of its own and a property on one of its edges was
\* deleted
C4_Witness ==
    /\ last.valid
    /\ \E v \in Uuids :
           /\ VertexDeleted(last.calls, v)
           /\ NoPropertySetOn(last.calls, v)
           /\ EdgePropertiesOwnedAt(last.pre, v)
           /\ \E r \in last.pre[CF_VERTEX_PROPERTIES] : VertexPropertyOwner(r[1]) = v
           /\ \E r \in last.pre[CF_EDGE_PROPERTIES] :
                  EdgePropertyOwner(r[1])[1] = v \/ EdgePropertyOwner(r[1])[3] = v
           /\ NoPropertiesOf(store, v)

(***************************************************************************)
(* C5.                                                                     *)
(***************************************************************************)
\* every property row has its owner row
NoOrphanProperty(db) ==
    /\ \A r \in db[CF_VERTEX_PROPERTIES] :
           VertexManager_exists(db, VertexPropertyOwner(r[1]))
    /\ \A r \in db[CF_EDGE_PROPERTIES] :
           LET e == EdgePropertyOwner(r[1])
           IN  EdgeManager_get(db, e[1], e[2], e[3]) # None

\* C5 as stated: in every committed store every property row has its owner
\* row, whatever manager operations were committed.
C5_NoOrphanProperty == NoOrphanProperty(store)

\* C5, amended: every property row has its owner row in every committed store
\* as long as batches are staged and committed one at a time, every property
\* set is staged for an owner whose row is in the committed store, and no
\* batch stages both a property set for an owner and a delete of that owner
\* (VertexManager.delete of the vertex, EdgeManager.delete of the edge,
\* VertexManager.delete of an endpoint of the edge).
C5_ContractKeepsOwners == propsOk => NoOrphanProperty(store)

\* under the contract, an edge that had a property row lost its edge row
C5_Witness ==
    /\ propsOk /\ last.valid
    /\ \E r \in last.pre[CF_EDGE_PROPERTIES] :
           LET e == EdgePropertyOwner(r[1])
           IN  /\ EdgeManager_get(last.pre, e[1], e[2], e[3]) # None
               /\ EdgeManager_get(store, e[1], e[2], e[3]) = None
    /\ NoOrphanProperty(store)

(***************************************************************************)
(* C6.                                                                     *)
(***************************************************************************)
WithoutKey(rows, key) == {r \in rows : r[1] # key}

\* the store after EdgeManager.delete(e, dt) alone, as the claim gives it
EdgeDeleteEffect(pre, e, dt) ==
    [cf \in ColumnFamilies |->
        IF cf = CF_EDGES THEN WithoutKey(pre[cf], EdgeManager_key(e[1], e[2], e[3]))
        ELSE IF cf = CF_EDGE_RANGES
        THEN WithoutKey(pre[cf], EdgeRangeManager_key(e[1], e[2], dt, e[3]))
        ELSE IF cf = CF_REVERSED_EDGE_RANGES
        THEN WithoutKey(pre[cf], EdgeRangeManager_key(e[3], e[2], dt, e[1]))
        ELSE IF cf = CF_EDGE_PROPERTIES
        THEN {r \in pre[cf] : EdgePropertyOwner(r[1]) # e}
        ELSE pre[cf]]

\* C6: a committed EdgeManager.delete(o,t,i,dt) removes exactly the edge row,
\* the two range rows at dt and the property rows owned by the edge; when the
\* edge was stored at another instant d, its range rows at d stay behind
\* without an edge row.
C6_EdgeDeleteEffect ==
    \A e \in AllEdges, dt \in Times :
        (last.valid
         /\ last.calls = <<Call("EdgeManager.delete", e[1], e[2], e[3], dt, <<>>, 0)>>)
            => /\ store = EdgeDeleteEffect(last.pre, e, dt)
               /\ \A d \in Times :
                      (d # dt /\ HasEdge(last.pre, e, d)
                       /\ HasForward(last.pre, e, d) /\ HasReversed(last.pre, e, d))
                          => /\ HasForward(store, e, d) /\ HasReversed(store, e, d)
                             /\ ~HasRow(store, CF_EDGES, EdgeManager_key(e[1], e[2], e[3]))

\* an edge with a property row was deleted with a stale update_datetime: its
\* property row is gone and its range rows are orphans
C6_Witness ==
    /\ last.valid
    /\ \E e \in AllEdges, dt, d \in Times :
           /\ last.calls = <<Call("EdgeManager.delete", e[1], e[2], e[3], dt, <<>>, 0)>>
           /\ d # dt
           /\ HasEdge(last.pre, e, d)
           /\ \E r \in last.pre[CF_EDGE_PROPERTIES] : EdgePropertyOwner(r[1]) = e
           /\ \A r \in store[CF_EDGE_PROPERTIES] : EdgePropertyOwner(r[1]) # e
           /\ HasForward(store, e, d) /\ HasReversed(store, e, d)
           /\ ~HasRow(store, CF_EDGES, EdgeManager_key(e[1], e[2], e[3]))

(***************************************************************************)
(* C7.                                                                     *)
(***************************************************************************)
\* C7: staging a put or a delete leaves the store as it is, so a read between
\* staging and commit is answered from the committed rows; the look-back of
\* EdgeManager.set and the scans of the two deletes stage what the committed
\* rows give, whatever the batch already holds.
C7_StagingLeavesStore ==
    [][ (ncalls' = ncalls + 1) =>
            /\ store' = store
            /\ \A b \in Batches :
                   calls'[b] # calls[b] =>
                       batch'[b] = batch[b] \o StagedBy(store, calls'[b][Len(calls'[b])])
      ]_vars

\* a batch holds two sets of one edge the store does not have: the store still
\* shows no row of it, and the second set staged no delete of the first's rows
C7_Witness ==
    \E e \in AllEdges, d1, d2 \in Times :
        /\ d1 # d2
        /\ calls[1] = <<Call("EdgeManager.set", e[1], e[2], e[3], d1, <<>>, 0),
                        Call("EdgeManager.set", e[1], e[2], e[3], d2, <<>>, 0)>>
        /\ EdgeManager_get(store, e[1], e[2], e[3]) = None
        /\ ~HasForward(store, e, d1) /\ ~HasReversed(store, e, d1)
        /\ Len(batch[1]) > 0
        /\ \A j \in 1..Len(batch[1]) : batch[1][j].op = "put"

(***************************************************************************)
(* C8.                                                                     *)
(***************************************************************************)
\* the rows of the store that do not belong to v or to an edge at v
RowsAwayFrom(db, v) ==
    [cf \in ColumnFamilies |->
        IF cf = CF_VERTICES THEN {r \in db[cf] : read_uuid(r[1], 1).val # v}
        ELSE IF cf = CF_VERTEX_PROPERTIES
        THEN {r \in db[cf] : VertexPropertyOwner(r[1]) # v}
        ELSE IF cf = CF_EDGES
        THEN {r \in db[cf] : EdgeRowOutbound(r[1]) # v /\ EdgeRowInbound(r[1]) # v}
        ELSE IF cf = CF_EDGE_PROPERTIES
        THEN {r \in db[cf] : EdgePropertyOwner(r[1])[1] # v /\ EdgePropertyOwner(r[1])[3] # v}
        ELSE {r \in db[cf] : /\ EdgeRangeManager_item(r[1])[1] # v
                             /\ EdgeRangeManager_item(r[1])[4] # v}]

\* C8: committing a batch that holds only VertexManager.delete(v) leaves every
\* row of another vertex, and of an edge that has v as neither endpoint, as it
\* was; every other vertex that existed still exists.
C8_VertexDeleteBreadthOne ==
    \A v \in Uuids :
        (last.valid
         /\ last.calls = <<Call("VertexManager.delete", v, <<>>, <<>>, 0, <<>>, 0)>>)
            => /\ RowsAwayFrom(store, v) = RowsAwayFrom(last.pre, v)
               /\ \A w \in Uuids \ {v} :
                      VertexManager_exists(last.pre, w) => VertexManager_exists(store, w)

\* a vertex with an edge to a neighbour was deleted; the neighbour and the
\* neighbour's own loop edge are still there
C8_Witness ==
    /\ last.valid
    /\ \E v \in Uuids, w \in Uuids :
           /\ w # v
           /\ last.calls = <<Call("VertexManager.delete", v, <<>>, <<>>, 0, <<>>, 0)>>
           /\ \E r \in last.pre[CF_EDGES] :
                  EdgeRowOutbound(r[1]) = v /\ EdgeRowInbound(r[1]) = w
           /\ \A r \in store[CF_EDGES] :
                  EdgeRowOutbound(r[1]) # v /\ EdgeRowInbound(r[1]) # v
           /\ VertexManager_exists(store, w)
           /\ \E r \in store[CF_EDGES] :
                  EdgeRowOutbound(r[1]) = w /\ EdgeRowInbound(r[1]) = w
           /\ \E r \in store[CF_EDGE_RANGES] : EdgeRangeManager_item(r[1])[1] = w

(***************************************************************************)
(* C9 and C10.                                                             *)
(***************************************************************************)
RangeFamilies == {CF_EDGE_RANGES, CF_REVERSED_EDGE_RANGES}

\* the elements of a sequence
Range(seq) == {seq[j] : j \in 1..Len(seq)}

\* the range rows a family holds, as the tuples they were written from
RangeRows(db, cf) ==
    {x \in Uuids \X Types \X Times \X Uuids :
        HasRow(db, cf, EdgeRangeManager_key(x[1], x[2], x[3], x[4]))}

\* C9: every row iterate_for_range(id, Some(t), None) yields has first_id = id
\* and type t, in every store and for both families.
C9_TypedScanPrefixClosed ==
    \A cf \in RangeFamilies, id \in Uuids, t \in Types :
        \A item \in Range(EdgeRangeManager_iterate_for_range(store, cf, id, Some(t), None)) :
            item[1] = id /\ item[2] = t

\* a family holds rows of one id under "a" and under "ab", and the scan for
\* "a" yields some of that id's rows and not all of them
C9_Witness ==
    \E cf \in RangeFamilies, id \in Uuids :
        LET items == EdgeRangeManager_iterate_for_range(store, cf, id, Some(TypeA), None)
        IN  /\ Len(items) > 0
            /\ \E x \in RangeRows(store, cf) : x[1] = id /\ x[2] = TypeAB
            /\ \A item \in Range(items) : item[1] = id /\ item[2] = TypeA

\* C10: iterate_for_range(id, None, Some(h)) yields exactly the rows of the
\* family with first_id = id and update_datetime <= h, of every type.
C10_TimeFilter ==
    \A cf \in RangeFamilies :
        \A rows \in {RangeRows(store, cf)} :
            \A id \in Uuids, h \in Times :
                Range(EdgeRangeManager_iterate_for_range(store, cf, id, None, Some(h)))
                    = {x \in rows : x[1] = id /\ x[3] <= h}

\* a scan yields rows of two types at or below h and leaves out a later row
C10_Witness ==
    \E cf \in RangeFamilies, id \in Uuids, h \in Times :
        LET items == Range(EdgeRangeManager_iterate_for_range(store, cf, id, None, Some(h)))
        IN  /\ \E x, y \in items : x[2] # y[2]
            /\ \E x \in items : x[3] = h
            /\ \E x \in RangeRows(store, cf) : x[1] = id /\ x[3] > h /\ x \notin items
            /\ \E x \in RangeRows(store, cf) : x[1] # id

(***************************************************************************)
(* C11.                                                                    *)
(***************************************************************************)
\* two commits in a row, of one EdgeManager.set of edge e each, with new
\* instants d1 (committed first) and d2, both staged from the store the first
\* commit found, in which e was stored at d0
RacingSets(e, d0, d1, d2) ==
    /\ last.valid /\ last.prev # <<>>
    /\ d1 # d2
    /\ HasEdge(last.prev[1].pre, e, d0)
    /\ last.prev[1].calls = <<Call("EdgeManager.set", e[1], e[2], e[3], d1, <<>>, 0)>>
    /\ last.calls = <<Call("EdgeManager.set", e[1], e[2], e[3], d2, <<>>, 0)>>
    /\ last.prev[1].ops = EdgeManager_set(last.prev[1].pre, e[1], e[2], e[3], d1)
    /\ last.ops = EdgeManager_set(last.prev[1].pre, e[1], e[2], e[3], d2)

\* a range row of e at an instant the edge row does not hold
StaleRangeRow(db, e) ==
    \E d \in Times : (HasForward(db, e, d) \/ HasReversed(db, e, d)) /\ ~HasEdge(db, e, d)

\* C11 as stated: whenever two batches set one existing edge to different
\* instants and both look-backs are read before either commit, a stale range
\* row of the edge is left after both commits.
C11_RacingSetsLeaveStaleRow ==
    \A e \in AllEdges, d0, d1, d2 \in Times :
        RacingSets(e, d0, d1, d2) => StaleRangeRow(store, e)

\* C11, amended: the same, when the batch that commits first set the edge to
\* an instant other than the stored one; its range rows at that instant are
\* the ones the second commit does not remove.
C11_FirstCommitLeavesStaleRow ==
    \A e \in AllEdges, d0, d1, d2 \in Times :
        (RacingSets(e, d0, d1, d2) /\ d1 # d0)
            => /\ HasEdge(store, e, d2)
               /\ HasForward(store, e, d1) /\ HasReversed(store, e, d1)
               /\ ~P1(store)

\* the race happened on an edge that had exactly its two range rows: the edge
\* row holds the second instant, the range rows of the first are still there
C11_Witness ==
    \E e \in AllEdges, d0, d1, d2 \in Times :
        /\ RacingSets(e, d0, d1, d2) /\ d1 # d0
        /\ EdgeMirrored(last.prev[1].pre, e)
        /\ HasEdge(store, e, d2)
        /\ HasForward(store, e, d1) /\ HasForward(store, e, d2)
        /\ StaleRangeRow(store, e)

(***************************************************************************)
(* C12.                                                                    *)
(***************************************************************************)
\* s is a leading part of t
IsPrefix(s, t) == Len(s) <= Len(t) /\ SubSeq(t, 1, Len(s)) = s

\* C12 as stated: a call that returns Err because a read failed has staged
\* nothing, and committing its batch applies what the other calls of the
\* batch staged and nothing else.
C12_ErrStagesNothing ==
    (last.valid /\ \E j \in 1..Len(last.calls) : last.calls[j] \in ErrCalls)
        => /\ last.ops = Restaged(last.pre, last.calls)
           /\ store = write(last.pre, Restaged(last.pre, last.calls))

\* C12, amended: EdgeManager.set that returns Err has staged nothing;
\* EdgeManager.delete and VertexManager.delete that return Err have staged a
\* leading part of what the answered call stages, at least the deletes that
\* come before their first scan, and committing the batch removes the rows
\* those deletes name and changes nothing else.
C12_ErrStagesLeadingPart ==
    \A c \in ErrCalls :
        (last.valid /\ last.calls = <<c>>)
            => /\ IsPrefix(last.ops, StagedBy(last.pre, Answered(c)))
               /\ (c \in EdgeSetErrCalls) => (last.ops = <<>> /\ store = last.pre)
               /\ (c \in EdgeDeleteErrCalls) => (Len(last.ops) >= 3)
               /\ (c \in VertexDeleteErrCalls) => (Len(last.ops) >= 1)
               /\ (c \notin EdgeSetErrCalls) =>
                      \A cf \in ColumnFamilies :
                          /\ store[cf] \subseteq last.pre[cf]
                          /\ write(last.pre, StagedBy(last.pre, Answered(c)))[cf]
                                 \subseteq store[cf]

\* VertexManager.delete of a vertex with a property row returned Err and its
\* batch was committed: the vertex row is gone, the property row is not
C12_Witness ==
    /\ last.valid
    /\ \E c \in VertexDeleteErrCalls :
           /\ last.calls = <<c>>
           /\ VertexManager_exists(last.pre, c.a)
           /\ ~VertexManager_exists(store, c.a)
           /\ \E r \in store[CF_VERTEX_PROPERTIES] : read_uuid(r[1], 1).val = c.a

(***************************************************************************)
(* C13.                                                                    *)
(***************************************************************************)
\* the owners of properties: a vertex <<v>> or an edge <<o, t, i>>
PropertyOwners == {<<v>> : v \in Uuids} \cup AllEdges

\* get of the property manager of the owner's kind
PropertyGet(db, owner, name) ==
    IF Len(owner) = 1 THEN VertexPropertyManager_get(db, owner[1], name)
    ELSE EdgePropertyManager_get(db, owner[1], owner[2], owner[3], name)

\* call c sets, or deletes, the property (owner, name) itself
SetsProperty(c, owner, name) ==
    /\ c.n = name
    /\ \/ c.m = "VertexPropertyManager.set" /\ owner = <<c.a>>
       \/ c.m = "EdgePropertyManager.set" /\ owner = <<c.a, c.t, c.b>>
DeletesProperty(c, owner, name) ==
    /\ c.n = name
    /\ \/ c.m = "VertexPropertyManager.delete" /\ owner = <<c.a>>
       \/ c.m = "EdgePropertyManager.delete" /\ owner = <<c.a, c.t, c.b>>

\* the cascade of call c, staged on db, stages the delete of the row of
\* (owner, name): the row is in db, and the cascade scans the owner (a
\* VertexManager.delete scans the edges it finds range rows of)
CascadeFinds(db, c, owner, name) ==
    /\ PropertyGet(db, owner, name) # None
    /\ \/ c.m = "EdgeManager.delete" /\ owner = <<c.a, c.t, c.b>>
       \/ c.m = "VertexManager.delete" /\ owner = <<c.a>>
       \/ /\ c.m = "VertexManager.delete" /\ Len(owner) = 3
          /\ \/ owner[1] = c.a /\ \E d \in Times : HasForward(db, owner, d)
             \/ owner[3] = c.a /\ \E d \in Times : HasReversed(db, owner, d)

\* the value of (owner, name) after the calls cs, as a map would give it:
\* the last set if no delete follows it. A cascade counts as a delete of
\* every property of the owners it covers (found = FALSE), or of those it
\* finds in db (found = TRUE).
RECURSIVE MapGet(_, _, _, _, _, _)
MapGet(cur, cs, db, owner, name, found) ==
    IF cs = <<>> THEN cur
    ELSE LET c == Head(cs)
             next == IF SetsProperty(c, owner, name) THEN Some(c.v)
                     ELSE IF DeletesProperty(c, owner, name) THEN None
                     ELSE IF /\ owner \in OwnersDeleted(c)
                             /\ (found => CascadeFinds(db, c, owner, name))
                          THEN None
                          ELSE cur
         IN  MapGet(next, Tail(cs), db, owner, name, found)

\* C13 as stated: after every commit, get of each property key returns the
\* value of the most recent set of that key not followed by a delete of the
\* key, direct or by a cascade over its owner, and absent otherwise; calls on
\* other keys do not count.
C13_PropertyManagersAreMaps ==
    last.valid =>
        \A owner \in PropertyOwners, name \in Names :
            PropertyGet(store, owner, name)
                = MapGet(PropertyGet(last.pre, owner, name), last.calls,
                         last.pre, owner, name, FALSE)

\* C13, amended: the same, where a cascade deletes the keys whose rows it
\* finds in the committed store when it is staged: a set staged earlier in
\* the same batch on a key without a committed row, and a property of an
\* edge without range rows, outlive the cascade.
C13_PropertyManagersAreMapsOfFoundRows ==
    last.valid =>
        \A owner \in PropertyOwners, name \in Names :
            PropertyGet(store, owner, name)
                = MapGet(PropertyGet(last.pre, owner, name), last.calls,
                         last.pre, owner, name, TRUE)

\* a committed set replaced the value of a key, and the key of the same
\* owner with the other name, which is a leading part or an extension of
\* this one, kept its value
C13_Witness ==
    /\ last.valid
    /\ \E owner \in PropertyOwners, name \in Names, other \in Names :
           /\ other # name
           /\ \E j \in 1..Len(last.calls) : SetsProperty(last.calls[j], owner, name)
           /\ PropertyGet(last.pre, owner, name) # None
           /\ PropertyGet(store, owner, name) # None
           /\ PropertyGet(store, owner, name) # PropertyGet(last.pre, owner, name)
           /\ PropertyGet(store, owner, other) # None
           /\ PropertyGet(store, owner, other) = PropertyGet(last.pre, owner, other)

(***************************************************************************)
(* C14.                                                                    *)
(***************************************************************************)
\* call c writes or deletes the vertex row of v
OnVertexRow(c, v) == c.m \in {"VertexManager.create", "VertexManager.delete"} /\ c.a = v

\* the last call of cs on the vertex row of v is create(v, t)
CreatedLast(cs, v, t) ==
    \E j \in 1..Len(cs) :
        /\ cs[j] = Call("VertexManager.create", v, t, <<>>, 0, <<>>, 0)
        /\ \A k \in (j + 1)..Len(cs) : ~OnVertexRow(cs[k], v)

\* every call of cs is VertexManager.create of vertex v
OnlyCreates(cs, v) ==
    \A j \in 1..Len(cs) : cs[j].m = "VertexManager.create" /\ cs[j].a = v

\* C14: a committed create(v, t) leaves exists(v) true and get(v) = t,
\* whatever type v had before; committing it twice gives the store that
\* committing it once gives; creates of v change no row but the vertex row
\* of v.
C14_CreateIsUpsert ==
    last.valid =>
        \A v \in Uuids, t \in Types :
            /\ CreatedLast(last.calls, v, t) =>
                   /\ VertexManager_exists(store, v)
                   /\ VertexManager_get(store, v) = Some(t)
            /\ (last.calls = << Call("VertexManager.create", v, t, <<>>, 0, <<>>, 0),
                                Call("VertexManager.create", v, t, <<>>, 0, <<>>, 0) >>) =>
                   store = write(last.pre, VertexManager_create(v, t))
            /\ OnlyCreates(last.calls, v) =>
                   /\ \A cf \in ColumnFamilies \ {CF_VERTICES} : store[cf] = last.pre[cf]
                   /\ {r \in store[CF_VERTICES] : r[1] # VertexManager_key(v)}
                          = {r \in last.pre[CF_VERTICES] : r[1] # VertexManager_key(v)}
                   /\ Cardinality({r \in store[CF_VERTICES] : r[1] = VertexManager_key(v)}) = 1

\* a vertex that had another type, a property row and an edge was created
\* again, twice in one batch
C14_Witness ==
    /\ last.valid
    /\ \E v \in Uuids, t \in Types :
           /\ last.calls = << Call("VertexManager.create", v, t, <<>>, 0, <<>>, 0),
                              Call("VertexManager.create", v, t, <<>>, 0, <<>>, 0) >>
           /\ VertexManager_get(last.pre, v) # None
           /\ VertexManager_get(last.pre, v) # Some(t)
           /\ VertexManager_get(store, v) = Some(t)
           /\ \E r \in store[CF_VERTEX_PROPERTIES] : VertexPropertyOwner(r[1]) = v
           /\ \E r \in store[CF_EDGES] : EdgeRowOutbound(r[1]) = v

(***************************************************************************)
(* C15.                                                                    *)
(***************************************************************************)
\* the components of a tuple under a schema, each with its kind
Components(schema, T) ==
    CASE schema = "VertexManager" -> << <<"Uuid", T.a>> >>
      [] schema = "EdgeManager" -> << <<"Uuid", T.a>>, <<"Type", T.t>>, <<"Uuid", T.b>> >>
      [] schema = "EdgeRangeManager" ->
             << <<"Uuid", T.a>>, <<"Type", T.t>>, <<"DateTime", T.d>>, <<"Uuid", T.b>> >>
      [] schema = "VertexPropertyManager" -> << <<"Uuid", T.a>>, <<"UnsizedString", T.n>> >>
      [] schema = "EdgePropertyManager" ->
             << <<"Uuid", T.a>>, <<"Type", T.t>>, <<"Uuid", T.b>>, <<"UnsizedString", T.n>> >>

\* the order of the logical components: ids and strings as strings,
\* instants by time
LogicalLess(kind, u, v) ==
    IF kind = "DateTime" THEN u < v ELSE BytesLess(u, v)

\* the order the keys are stored in: a shorter type before a longer one,
\* a later instant before an earlier one
KeyOrderLess(kind, u, v) ==
    CASE kind = "Type" -> Len(u) < Len(v) \/ (Len(u) = Len(v) /\ BytesLess(u, v))
      [] kind = "DateTime" -> u > v
      [] OTHER -> BytesLess(u, v)

\* tuple-lexicographic order from component i on, by the logical order of
\* the components or by their key order
RECURSIVE TupleLessFrom(_, _, _, _)
TupleLessFrom(logical, xs, ys, i) ==
    IF i > Len(xs) THEN FALSE
    ELSE IF xs[i][2] # ys[i][2]
         THEN IF logical THEN LogicalLess(xs[i][1], xs[i][2], ys[i][2])
              ELSE KeyOrderLess(xs[i][1], xs[i][2], ys[i][2])
    ELSE TupleLessFrom(logical, xs, ys, i + 1)

\* C15 as stated: of two tuples of one schema, the one that is smaller in the
\* tuple-lexicographic order of the logical components has the bytewise
\* smaller key.
C15_CodecPreservesLogicalOrder ==
    probe.done =>
        (TupleLessFrom(TRUE, Components(probe.schema, probe.x),
                       Components(probe.schema, probe.y), 1)
            => BytesLess(probe.kx, probe.ky))

\* C15 amended: the key of one tuple is bytewise smaller than the key of
\* another of the same schema exactly when the tuple is smaller in the
\* tuple-lexicographic order in which types compare by length first and
\* instants compare latest first.
C15_CodecPreservesKeyOrder ==
    probe.done =>
        (TupleLessFrom(FALSE, Components(probe.schema, probe.x),
                       Components(probe.schema, probe.y), 1)
            <=> BytesLess(probe.kx, probe.ky))

\* range keys were built for the types "b" and "ab" of one vertex
C15_Witness ==
    /\ probe.done
    /\ probe.schema = "EdgeRangeManager"
    /\ probe.x.a = probe.y.a
    /\ probe.x.t = TypeB
    /\ probe.y.t = TypeAB
    /\ BytesLess(probe.kx, probe.ky)

(***************************************************************************)
(* C16.                                                                    *)
(***************************************************************************)
\* the upper bounds a scan is asked with: absent, the instants of the
\* callers and the instants right after them
ScanHighs == {None} \cup {Some(d) : d \in Times} \cup {Some(d + 1) : d \in Times}

\* the bound a scan with upper bound high works with
HighOf(high) == IF high = None THEN MAX_DATETIME ELSE high[1]

\* items come latest first, and by second_id among equal instants: each item
\* stands in that order to the next
ReverseChronological(items) ==
    \A j \in 1..(Len(items) - 1) :
        \/ items[j][3] > items[j + 1][3]
        \/ items[j][3] = items[j + 1][3] /\ BytesLess(items[j][4], items[j + 1][4])

\* C16: iterate_for_range(id, Some(t), high) yields exactly the rows of the
\* family with first_id = id, type t and update_datetime <= high (all rows of
\* (id, t) when high is absent), each once, latest first and by second_id
\* among rows of one instant.
C16_TypedBoundedScan ==
    \A cf \in RangeFamilies :
        \A rows \in {RangeRows(store, cf)} :
            \A id \in Uuids, t \in Types, high \in ScanHighs :
                \A items \in {EdgeRangeManager_iterate_for_range(store, cf, id, Some(t), high)} :
                    /\ Range(items) =
                           {x \in rows : x[1] = id /\ x[2] = t /\ x[3] <= HighOf(high)}
                    /\ Len(items) = Cardinality(Range(items))
                    /\ ReverseChronological(items)

\* a bounded scan yields two rows of one instant and
\* leaves out a later row of its type and a row of the other type
C16_Witness ==
    \E cf \in RangeFamilies, id \in Uuids, t \in Types, h \in Times :
        LET items == EdgeRangeManager_iterate_for_range(store, cf, id, Some(t), Some(h))
            rows == RangeRows(store, cf)
        IN  /\ \E j, k \in 1..Len(items) :
                   j < k /\ items[j][3] = items[k][3] /\ items[j][4] # items[k][4]
            /\ \E x \in rows : x[1] = id /\ x[2] = t /\ x[3] > h
            /\ \E x \in rows : x[1] = id /\ x[2] # t

(***************************************************************************)
(* C17.                                                                    *)
(***************************************************************************)
\* the property rows a store holds, as the tuples they were written from
VertexPropertyRows(db) ==
    {x \in (Uuids \X Names) \X JsonValues :
        <<VertexPropertyManager_key(x[1][1], x[1][2]), serde_json_to_vec(x[2])>>
            \in db[CF_VERTEX_PROPERTIES]}
EdgePropertyRows(db) ==
    {x \in (Uuids \X Types \X Uuids \X Names) \X JsonValues :
        <<EdgePropertyManager_key(x[1][1], x[1][2], x[1][3], x[1][4]),
          serde_json_to_vec(x[2])>> \in db[CF_EDGE_PROPERTIES]}

\* the items are the given tuples, each once, in the order of the keys
\* they are written under
ExactInKeyOrder(items, tuples, KeyOfItem(_)) ==
    /\ Range(items) = tuples
    /\ Len(items) = Cardinality(tuples)
    /\ \A j \in 1..(Len(items) - 1) :
           BytesLess(KeyOfItem(items[j]), KeyOfItem(items[j + 1]))

RangeItemKey(x) == EdgeRangeManager_key(x[1], x[2], x[3], x[4])
VertexPropertyItemKey(x) == VertexPropertyManager_key(x[1][1], x[1][2])
EdgePropertyItemKey(x) == EdgePropertyManager_key(x[1][1], x[1][2], x[1][3], x[1][4])

\* C17: the owner scans of the range families, of the vertex properties and
\* of the edge properties yield exactly the rows of the owner, as the tuples
\* they were written from, each once and in key order.
C17_OwnerScansExact ==
    /\ \A cf \in RangeFamilies :
           \A rows \in {RangeRows(store, cf)} :
               /\ Cardinality(rows) = Cardinality(store[cf])
               /\ \A id \in Uuids :
                      ExactInKeyOrder(EdgeRangeManager_iterate_for_owner(store, cf, id),
                                      {x \in rows : x[1] = id}, RangeItemKey)
    /\ \A rows \in {VertexPropertyRows(store)} :
           /\ Cardinality(rows) = Cardinality(store[CF_VERTEX_PROPERTIES])
           /\ \A v \in Uuids :
                  ExactInKeyOrder(VertexPropertyManager_iterate_for_owner(store, v),
                                  {x \in rows : x[1][1] = v}, VertexPropertyItemKey)
    /\ \A rows \in {EdgePropertyRows(store)} :
           /\ Cardinality(rows) = Cardinality(store[CF_EDGE_PROPERTIES])
           /\ \A o \in Uuids, t \in Types, i \in Uuids :
                  ExactInKeyOrder(EdgePropertyManager_iterate_for_owner(store, o, t, i),
                                  {x \in rows : x[1][1] = o /\ x[1][2] = t /\ x[1][3] = i},
                                  EdgePropertyItemKey)

\* each kind of scan yields rows of its owner, the range scan two of them,
\* while the family holds rows of another owner: for the edge properties an
\* edge of the same endpoints and the other type
C17_Witness ==
    /\ \E cf \in RangeFamilies, id \in Uuids :
           /\ Len(EdgeRangeManager_iterate_for_owner(store, cf, id)) >= 2
           /\ \E r \in store[cf] : EdgeRangeManager_item(r[1])[1] # id
    /\ \E v \in Uuids :
           /\ Len(VertexPropertyManager_iterate_for_owner(store, v)) >= 1
           /\ \E r \in store[CF_VERTEX_PROPERTIES] : VertexPropertyOwner(r[1]) # v
    /\ \E o \in Uuids, t \in Types, i \in Uuids :
           /\ Len(EdgePropertyManager_iterate_for_owner(store, o, t, i)) >= 1
           /\ \E x \in EdgePropertyRows(store) :
                  x[1][1] = o /\ x[1][2] # t /\ x[1][3] = i

(***************************************************************************)
(* C18.                                                                    *)
(***************************************************************************)
\* C18: in every committed store the forward family holds (a, t, d, b)
\* exactly when the reversed family holds (b, t, d, a), whatever batches of
\* EdgeManager.set, EdgeManager.delete and VertexManager.delete were staged
\* and committed, in whatever interleaving.
C18_RangeFamiliesMirrored ==
    /\ \A x \in Uuids \X Types \X Times \X Uuids :
           HasRow(store, CF_EDGE_RANGES, EdgeRangeManager_key(x[1], x[2], x[3], x[4]))
               <=> HasRow(store, CF_REVERSED_EDGE_RANGES,
                          EdgeRangeManager_key(x[4], x[2], x[3], x[1]))
    /\ Cardinality(store[CF_EDGE_RANGES]) = Cardinality(store[CF_REVERSED_EDGE_RANGES])

\* two batches staged over each other were committed one after the other,
\* the second with a delete in it; a stale range row is left, in both
\* families
C18_Witness ==
    /\ last.valid
    /\ last.prev # <<>>
    /\ last.prev[1].pre = last.pre \/ last.ops # Restaged(last.pre, last.calls)
    /\ \E j \in 1..Len(last.calls) :
           last.calls[j].m \in {"EdgeManager.delete", "VertexManager.delete"}
    /\ ~P1(store)
    /\ \E x \in RangeRows(store, CF_EDGE_RANGES) :
           /\ ~HasEdge(store, <<x[1], x[2], x[4]>>, x[3])
           /\ HasRow(store, CF_REVERSED_EDGE_RANGES,
                     EdgeRangeManager_key(x[4], x[2], x[3], x[1]))

(***************************************************************************)
(* C19.                                                                    *)
(***************************************************************************)
\* C19: from the empty store and with EdgeManager.set alone, as long as no
\* batch stages two sets of one edge and no commit between a set's look-back
\* and the commit of its batch changed what the look-back read, every edge
\* row (o, t, i) at instant d has the range rows (o, t, d, i) and (i, t, d, o)
\* and no range row at another instant, however the batches interleave.
C19_UnsharedEdgesKeepP1 ==
    edgesOk =>
        \A e \in AllEdges, d \in Times :
            HasEdge(store, e, d) =>
                /\ HasForward(store, e, d)
                /\ HasReversed(store, e, d)
                /\ \A other \in Times \ {d} :
                       ~HasForward(store, e, other) /\ ~HasReversed(store, e, other)

\* a batch that moved an edge to another instant was committed while
\* another batch, with a set of another edge, was staged and not committed
C19_Witness ==
    /\ edgesOk
    /\ last.valid
    /\ \E e \in AllEdges, d1, d2 \in Times :
           /\ d1 # d2
           /\ HasEdge(last.pre, e, d1)
           /\ HasEdge(store, e, d2)
           /\ ~HasForward(store, e, d1)
           /\ \E b \in Batches :
                  /\ calls[b] # <<>>
                  /\ \A j \in 1..Len(calls[b]) : e \notin EdgesTouched(calls[b][j])

====
